---- MODULE Spec2Model ----
(***************************************************************************)
(* Model of batch_archived_or_not.py: the HeavyLifter worker thread        *)
(* (run, process_files, find_file_count, update_progress, save_results)    *)
(* and the control thread's cancel(); then, in a second specification,     *)
(* the window around it (GuiHandler: Submit, Cancel, the slots of the      *)
(* worker's signals) and an exception that leaves process_files.           *)
(*                                                                         *)
(* Text is modelled as a sequence of atoms.  The separators "/" and "\"    *)
(* are atoms of their own, every other atom is a piece of text holding no  *)
(* separator, so that str.replace('/', '\\') is a map over the sequence.   *)
(* Paths are built as os.path does on Windows, the platform of the         *)
(* program (N:\ share, "Windows File Explorer").                           *)
(***************************************************************************)
EXTENDS Integers, Sequences, FiniteSets, TLC

VARIABLES
    path,                 \* self.path
    exclude_src,          \* self.exclude_src
    recursive,            \* self.recursive
    only_missing_files,   \* self.only_missing_files
    output_type,          \* self.output_type
    tree,                 \* the directory tree as os.walk(self.path) yields it
    stop,                 \* self.stop
    pc,                   \* position of the worker thread
    outcome,              \* how the run ended: "none" while it runs
    d,                    \* index of the directory the walk is at
    f,                    \* index of the file within that directory
    results,              \* the results dict, in insertion order
    progress_bar_counter, \* local of process_files
    progress_bar_max,     \* local of process_files
    response,             \* local of process_files: the last response received
    events,               \* everything emitted on the three signals, in order
    requests,             \* the uploads issued (client.post), in order
    written,              \* the export files save_results wrote or failed to write
    log,                  \* history: one record per file the loop dealt with
    cancelled_at,         \* history: the worker's position when stop was set
    cancel_button,        \* self.cancel_button.isEnabled()
    handled,              \* how many of the events the GUI thread's slots have run for
    unreadable,           \* the directories os.walk could not list and passed over
    orphans               \* the workers still running that self.hl no longer refers to

vars == <<path, exclude_src, recursive, only_missing_files, output_type, tree,
          stop, pc, outcome, d, f, results, progress_bar_counter,
          progress_bar_max, response, events, requests, written, log,
          cancelled_at, cancel_button, handled, unreadable,
          orphans>>

\* the window's part of the state
gui == <<cancel_button, handled, orphans>>

config == <<path, exclude_src, recursive, only_missing_files, output_type, tree>>

----------------------------------------------------------------------------
(* Bounds and program constants *)

\* longest location array a response carries
MaxLocs == 2

\* most workers that run on after a later Submit replaced them
MaxOrphans == 1

\* largest pre-count total the progress arithmetic is applied to
MaxTotal == 120

MAX_FILE_SIZE_MB == 1000

BytesPerMB == 1024 * 1024

\* the timeout of the httpx.Client every upload goes through
CLIENT_TIMEOUT == 300

----------------------------------------------------------------------------
(* Text *)

BSL == "\\"

FSL == "/"

\* str.replace(from, to) for one-atom patterns
Replace(s, from, to) == [i \in 1..Len(s) |-> IF s[i] = from THEN to ELSE s[i]]

\* str.startswith
StartsWith(s, p) == Len(s) >= Len(p) /\ SubSeq(s, 1, Len(p)) = p

RemoveAt(s, i) == SubSeq(s, 1, i - 1) \o SubSeq(s, i + 1, Len(s))

\* os.path.join(a, b) on Windows, a not ending in a separator
PathJoin(a, b) == a \o <<BSL>> \o b

\* os.path.relpath(p, start) on Windows for p below start: the normalised
\* remainder of p after start and its separator
RelPath(p, start) == SubSeq(Replace(p, FSL, BSL), Len(start) + 2, Len(p))

\* the prefix of line 343
SHARE_ROOT == <<"N:", BSL, "PPDO", BSL, "Records", BSL>>

files_to_ignore == {<<".DS_Store">>, <<"Thumbs.db">>}

ignore_file_startswith(filename) == StartsWith(filename, <<"~", "$">>)

\* ignore_file without the prefix test of line 185
ignore_file_list_only(filename) == filename \in files_to_ignore

ignore_file(filename) ==
    filename \in files_to_ignore \/ ignore_file_startswith(filename)

----------------------------------------------------------------------------
(* The inputs: run configurations, trees, responses *)

\* the text typed or pasted (backslashes) and the text QFileDialog returns
\* (forward slashes) for the same directory
Paths == { <<"N:", BSL, "PPDO", BSL, "Records", BSL, "r">>,
           <<"N:", FSL, "PPDO", FSL, "Records", FSL, "r">> }

OutputTypes == {"none", "json", "excel", "json and excel"}

LimitBytes == MAX_FILE_SIZE_MB * BytesPerMB

File(name, size) == [name |-> name, size |-> size]

Dir(rel, files) == [rel |-> rel, files |-> files]

\* Each tree is the sequence of (directory, files) os.walk yields, top first;
\* rel is the directory's path below the top (empty for the top itself).
Trees == {
    \* only an ignored file at the top, one file below
    << Dir(<<>>, << File(<<"Thumbs.db">>, 1) >>),
       Dir(<<"s">>, << File(<<"a">>, 1) >>) >>,
    \* a file one byte over the limit, a file of exactly the limit, a
    \* temporary file, and a small file
    << Dir(<<>>, << File(<<"big">>, LimitBytes + 1), File(<<"a">>, LimitBytes),
                    File(<<"~", "$", "x">>, 1), File(<<"b">>, 1) >>) >>,
    \* a file of a quarter MB at the top, an ignored and a plain file below
    << Dir(<<>>, << File(<<"a">>, BytesPerMB \div 4) >>),
       Dir(<<"s">>, << File(<<".DS_Store">>, 1), File(<<"b">>, 1) >>) >>,
    \* a file starting with "~" only at the top, an empty directory below
    << Dir(<<>>, << File(<<"~", "a">>, 1) >>),
       Dir(<<"s">>, <<>>) >>
  }

\* the location the remote names for the file itself: its path below the
\* share root, forward-slash separated
SrcLoc(rel) == <<"r", FSL>> \o Replace(rel, BSL, FSL)

OtherLoc == <<"z", FSL, "q">>

RECURSIVE SeqsUpTo(_, _)
SeqsUpTo(S, n) ==
    IF n = 0 THEN { <<>> }
    ELSE LET shorter == SeqsUpTo(S, n - 1)
         IN shorter \cup { Append(s, x) : s \in shorter, x \in S }

\* A response body, by what json.loads makes of its text:
\*   "invalid": text that is no JSON (json.loads raises)
\*   "array":   a JSON array of path strings
\*   "object":  a non-empty JSON object
Body(kind, text, items) == [kind |-> kind, text |-> text, items |-> items]

InvalidBody == Body("invalid", <<"Internal Server Error">>, <<>>)

\* its items are its keys
ObjectBody == Body("object", <<"{", "error", "}">>, << <<"error">> >>)

\* the text of a JSON array of strings
RECURSIVE JsonItems(_)
JsonItems(items) ==
    IF items = <<>> THEN <<>>
    ELSE IF Len(items) = 1 THEN <<"\"">> \o Head(items) \o <<"\"">>
    ELSE <<"\"">> \o Head(items) \o <<"\"", ", ">> \o JsonItems(Tail(items))

ArrayBody(items) == Body("array", <<"[">> \o JsonItems(items) \o <<"]">>, items)

Response(status, body) == [status |-> status, body |-> body]

NoResponse == Response(0, Body("none", <<>>, <<>>))

ArrayBodies(rel) == { ArrayBody(ls) : ls \in SeqsUpTo({SrcLoc(rel), OtherLoc}, MaxLocs) }

ErrorStatuses == {400, 405, 500}

\* what the remote may answer for the file at rel
Responses(rel) ==
    { Response(200, b) : b \in ArrayBodies(rel) \cup {InvalidBody, ObjectBody} }
    \cup { Response(404, Body("invalid", <<>>, <<>>)) }
    \cup { Response(s, InvalidBody) : s \in ErrorStatuses }
    \cup { Response(500, b) : b \in {ObjectBody, ArrayBody(<<OtherLoc>>)} }

----------------------------------------------------------------------------
(* Values of the results dict, the dict itself, and the signals *)

Str(text) == [kind |-> "str", text |-> text, items |-> <<>>]

List(items) == [kind |-> "list", text |-> <<>>, items |-> items]

\* a parsed JSON object stored as it came: its items are its keys
DictValue(text, keys) == [kind |-> "dict", text |-> text, items |-> keys]

IsFailed(v) == v.kind = "str" /\ StartsWith(v.text, <<"Error: ">>)

IsSkipped(v) == v.kind = "str" /\ StartsWith(v.text, <<"Skipped: ">>)

IsNotFound(v) == v = Str(<<"None">>)

IsFound(v) == v.kind = "list"

Keys(dct) == { dct[i].key : i \in 1..Len(dct) }

DictGet(dct, k) == dct[CHOOSE i \in 1..Len(dct) : dct[i].key = k].val

\* dct[k] = v of a Python dict: in place for a key it holds, else appended
DictSet(dct, k, v) ==
    IF k \in Keys(dct)
    THEN [i \in 1..Len(dct) |-> IF dct[i].key = k THEN [key |-> k, val |-> v] ELSE dct[i]]
    ELSE Append(dct, [key |-> k, val |-> v])

Progress(n) == [sig |-> "progress", msg |-> "", arg |-> <<>>, n |-> n]

Finished(msg, arg) == [sig |-> "finished", msg |-> msg, arg |-> arg, n |-> 0]

FinishedN(msg, n) == [sig |-> "finished", msg |-> msg, arg |-> <<>>, n |-> n]

Error(msg, arg) == [sig |-> "error", msg |-> msg, arg |-> arg, n |-> 0]

----------------------------------------------------------------------------
(* File size, skip policy, progress *)

\* f"{size / (1024 * 1024):.1f}": the size in tenths of a MB, rounded half
\* to even (the quotient is exact in binary floating point)
SizeTenths(size) ==
    LET whole == size \div BytesPerMB
        rest  == (size % BytesPerMB) * 10
        q     == rest \div BytesPerMB
        r     == rest % BytesPerMB
        up    == IF 2 * r > BytesPerMB \/ (2 * r = BytesPerMB /\ q % 2 = 1) THEN 1 ELSE 0
    IN whole * 10 + q + up

Format1f(size) ==
    <<ToString(SizeTenths(size) \div 10), ".", ToString(SizeTenths(size) % 10)>>

\* the comparison with >= for >
ExceedsLimitOrEqual(size) == size >= MAX_FILE_SIZE_MB * BytesPerMB

\* file_size_mb > MAX_FILE_SIZE_MB, with file_size_mb = size / (1024 * 1024)
ExceedsLimit(size) == size > MAX_FILE_SIZE_MB * BytesPerMB

SkipMessage(size) ==
    <<"File too large (">> \o Format1f(size) \o
    <<"MB exceeds ", ToString(MAX_FILE_SIZE_MB), "MB limit)">>

\* update_progress without the correction of lines 206-207
update_progress_no_floor(current_count, total_count) ==
    IF total_count = 0 THEN 0 ELSE (current_count * 100) \div total_count

update_progress(current_count, total_count) ==
    IF total_count = 0 THEN 0
    ELSE LET progress == (current_count * 100) \div total_count
         IN IF progress = 0 THEN 1 ELSE progress

----------------------------------------------------------------------------
(* The walk *)

\* the directories the counting walk visits: it breaks after the first one
\* when not recursive
WalkedCount(t, rec) == IF rec \/ Len(t) = 0 THEN t ELSE SubSeq(t, 1, 1)

RECURSIVE CountFiles(_)
CountFiles(files) ==
    IF files = <<>> THEN 0
    ELSE (IF ignore_file(Head(files).name) THEN 0 ELSE 1) + CountFiles(Tail(files))

RECURSIVE CountDirs(_)
CountDirs(dirs) ==
    IF dirs = <<>> THEN 0 ELSE CountFiles(Head(dirs).files) + CountDirs(Tail(dirs))

\* the count without the break of lines 417-419
find_file_count_no_break(t, rec) == CountDirs(t)

find_file_count(t, rec) == CountDirs(WalkedCount(t, rec))

find_file_count_events(n) ==
    << Finished("Calculating file count...", <<>>),
       FinishedN("File count completed for", n) >>

\* root of os.walk for a directory
RootOf(p, dir) == IF dir.rel = <<>> THEN p ELSE PathJoin(p, dir.rel)

----------------------------------------------------------------------------
(* One file: lines 327-346, the except clause, lines 366-370 *)

Normalize(p) == Replace(p, FSL, BSL)

Rewrite(loc) == SHARE_ROOT \o Replace(loc, FSL, BSL)

LocationLine(loc) == Finished("pre", loc)

\* for i in range(n): rewrite file_locations[i] in place, emit it, and delete
\* it when it is the source path.  n is the length before the loop, so an
\* index past the shortened list raises IndexError.
RECURSIVE RewriteLoop(_, _, _, _, _, _)
RewriteLoop(locs, i, n, filepath, excl, out) ==
    IF i > n THEN [raised |-> FALSE, locs |-> locs, out |-> out]
    ELSE IF i > Len(locs) THEN [raised |-> TRUE, locs |-> locs, out |-> out]
    ELSE LET rw == Rewrite(locs[i])
             set == [locs EXCEPT ![i] = rw]
             out2 == Append(out, LocationLine(rw))
         IN IF excl /\ rw = filepath
            THEN RewriteLoop(RemoveAt(set, i), i + 1, n, filepath, excl, out2)
            ELSE RewriteLoop(set, i + 1, n, filepath, excl, out2)

Returned(value, out) ==
    [raised |-> FALSE, text |-> <<>>, value |-> value, out |-> out]

Raised(text, out) ==
    [raised |-> TRUE, text |-> text, value |-> Str(<<>>), out |-> out]

\* Lines 327-346 for a response that arrived: what is emitted on finished,
\* and either the value of file_locations or the text of the exception.
HandleResponse(resp, filepath, rel, only_missing, excl) ==
    LET header == Finished("Locations for", Replace(rel, FSL, BSL))
        first == IF only_missing THEN <<>> ELSE <<header>>
    IN IF resp.status = 404
       THEN Returned(Str(<<"None">>),
                     first \o (IF only_missing THEN <<header>> ELSE <<>>)
                           \o <<Finished("pre", <<"None">>)>>)
       ELSE CASE resp.body.kind = "invalid" ->
                   \* json.loads raises JSONDecodeError
                   Raised(<<"Expecting value: line 1 column 1 (char 0)">>, first)
              [] resp.body.kind = "object" ->
                   \* file_locations[0] of a dict raises KeyError(0)
                   IF only_missing THEN Returned(DictValue(resp.body.text, resp.body.items), first)
                   ELSE Raised(<<"0">>, first)
              [] resp.body.kind = "array" ->
                   IF only_missing THEN Returned(List(resp.body.items), first)
                   ELSE LET loop == RewriteLoop(resp.body.items, 1, Len(resp.body.items),
                                                filepath, excl, first)
                        IN IF loop.raised
                           THEN Raised(<<"list index out of range">>, loop.out)
                           ELSE Returned(List(loop.locs), loop.out)

StatusText(status) == ToString(status)

\* the except clause, lines 354-363: resp is the local `response`, which holds
\* the last response any iteration received
ExceptMessage(resp, text) ==
    IF resp.status \in {404, 400, 500, 405}
    THEN <<"HTTP ", StatusText(resp.status), ": ">> \o resp.body.text
    ELSE text

ExceptEvent(resp, text, rel) ==
    IF resp.status \in {404, 400, 500, 405}
    THEN Error("Request Error for", rel \o <<":<br>">> \o resp.body.text)
    ELSE Error("Error processing file", rel \o <<": ">> \o text)

ExceptValue(resp, text) == Str(<<"Error: ">> \o ExceptMessage(resp, text))

----------------------------------------------------------------------------
(* State *)

NoCancel == [k |-> -1, ahead |-> FALSE, pc |-> "none"]

Init ==
    /\ path \in Paths
    /\ exclude_src \in BOOLEAN
    /\ recursive \in BOOLEAN
    /\ only_missing_files \in BOOLEAN
    /\ output_type \in OutputTypes
    /\ tree \in Trees
    /\ stop = FALSE
    /\ pc = "start"
    /\ outcome = "none"
    /\ d = 0
    /\ f = 0
    /\ results = <<>>
    /\ progress_bar_counter = 0
    /\ progress_bar_max = 0
    /\ response = NoResponse
    /\ events = <<>>
    /\ requests = <<>>
    /\ written = <<>>
    /\ log = <<>>
    /\ cancelled_at = NoCancel
    \* exclude_src is read only in the loop of lines 340-346, which is not
    \* entered with only_missing_files set: the two settings of it give the
    \* same run then, and one is taken
    /\ only_missing_files => ~exclude_src
    /\ cancel_button = TRUE
    /\ handled = 0
    /\ unreadable = {}
    /\ orphans = 0

CurDir == tree[d]

CurFile == CurDir.files[f]

\* filepath = os.path.join(root, file)
CurPath == PathJoin(RootOf(path, CurDir), CurFile.name)

\* path_relative_to_files_location
CurRel == RelPath(CurPath, path)

\* the processing walk without the break of lines 373-375
BreaksAfterNever(dir) == FALSE

\* the processing walk breaking after every directory
BreaksAfterAlways(dir) == TRUE

\* the break of lines 373-375
BreaksAfter(dir) == RootOf(path, dir) = path /\ ~recursive

\* Standing before the check for file ff of directory dd: is there a check of
\* the flag still to come (another file of the directory, or another
\* directory of the walk)?
CheckAhead(dd, ff) ==
    \/ ff <= Len(tree[dd].files)
    \/ ~BreaksAfter(tree[dd]) /\ dd + 1 <= Len(tree)

\* the same, from wherever the worker is
CheckAheadAt ==
    CASE pc = "count" -> find_file_count(tree, recursive) > 0
      [] pc = "walk" -> d <= Len(tree)
      [] pc = "file" -> CheckAhead(d, f)
      [] pc = "post" -> CheckAhead(d, f + 1)
      [] OTHER -> FALSE

----------------------------------------------------------------------------
(* The control thread *)

\* HeavyLifter.cancel, called while the thread is running.  A call that finds
\* the flag set changes nothing and is left out.
cancel ==
    /\ pc # "done"
    /\ ~stop
    /\ stop' = TRUE
    /\ cancelled_at' = IF pc = "start" THEN cancelled_at
                       ELSE [k |-> Len(results), ahead |-> CheckAheadAt, pc |-> pc]
    /\ UNCHANGED <<config, gui, unreadable, pc, outcome, d, f, results, progress_bar_counter,
                   progress_bar_max, response, events, requests, written, log>>

----------------------------------------------------------------------------
(* The worker thread *)

\* HeavyLifter.run up to the call of process_files
run ==
    /\ pc = "start"
    /\ stop' = FALSE
    /\ pc' = "count"
    /\ UNCHANGED <<config, gui, unreadable, outcome, d, f, results, progress_bar_counter,
                   progress_bar_max, response, events, requests, written, log,
                   cancelled_at>>

\* a pre-count of zero that is not taken for an empty batch
NoFilesNever(total) == FALSE

\* the test of line 240
NoFiles(total) == total = 0

\* process_files, lines 232-243: the locals, progress 0, the count
process_files_begin ==
    /\ pc = "count"
    /\ LET total == find_file_count(tree, recursive)
           begun == events \o <<Progress(0)>> \o find_file_count_events(total)
       IN /\ results' = <<>>
          /\ progress_bar_counter' = 0
          /\ progress_bar_max' = total
          /\ IF NoFiles(total)
             THEN /\ events' = Append(begun, Finished("No files found.", <<>>))
                  /\ pc' = "done"
                  /\ outcome' = "nofiles"
                  /\ d' = d
             ELSE /\ events' = begun
                  /\ pc' = "walk"
                  /\ outcome' = outcome
                  /\ d' = 1
    /\ UNCHANGED <<config, gui, unreadable, stop, f, response, requests, written, log, cancelled_at>>

\* the canceled status without the progress of lines 251 and 261
CanceledEventsNoProgress == <<Finished("Process canceled.", <<>>)>>

\* what lines 250-251 and 260-261 emit
CanceledEvents == <<Finished("Process canceled.", <<>>), Progress(100)>>

canceled ==
    /\ events' = events \o CanceledEvents
    /\ pc' = "done"
    /\ outcome' = "canceled"
    /\ UNCHANGED <<config, gui, unreadable, stop, d, f, results, progress_bar_counter,
                   progress_bar_max, response, requests, written, log, cancelled_at>>

\* the directory loop without the test of line 248
DirLoopStopNever == FALSE

\* the test of line 248
DirLoopStop == stop

\* the file loop without the test of line 258
FileLoopStopNever == FALSE

\* the test of line 258
FileLoopStop == stop

\* os.walk is exhausted: on to line 377
walk_ends ==
    /\ pc = "walk"
    /\ d > Len(tree)
    /\ pc' = "save"
    /\ UNCHANGED <<config, gui, unreadable, stop, outcome, d, f, results, progress_bar_counter,
                   progress_bar_max, response, events, requests, written, log,
                   cancelled_at>>

\* lines 247-252 with the flag set
walk_canceled ==
    /\ pc = "walk"
    /\ d <= Len(tree)
    /\ DirLoopStop
    /\ canceled

\* lines 247-256: the next directory
walk_dir ==
    /\ pc = "walk"
    /\ d <= Len(tree)
    /\ ~DirLoopStop
    /\ f' = 1
    /\ pc' = "file"
    /\ UNCHANGED <<config, gui, unreadable, stop, outcome, d, results, progress_bar_counter,
                   progress_bar_max, response, events, requests, written, log,
                   cancelled_at>>

\* the directory's files are exhausted: lines 373-375
files_end ==
    /\ pc = "file"
    /\ f > Len(CurDir.files)
    /\ IF BreaksAfter(CurDir)
       THEN pc' = "save" /\ d' = d
       ELSE pc' = "walk" /\ d' = d + 1
    /\ UNCHANGED <<config, gui, unreadable, stop, outcome, f, results, progress_bar_counter,
                   progress_bar_max, response, events, requests, written, log,
                   cancelled_at>>

\* lines 256-262 with the flag set
file_canceled ==
    /\ pc = "file"
    /\ f <= Len(CurDir.files)
    /\ FileLoopStop
    /\ canceled

\* lines 264-266
file_ignored ==
    /\ pc = "file"
    /\ f <= Len(CurDir.files)
    /\ ~FileLoopStop
    /\ ignore_file(CurFile.name)
    /\ f' = f + 1
    /\ UNCHANGED <<config, gui, unreadable, stop, pc, outcome, d, results, progress_bar_counter,
                   progress_bar_max, response, events, requests, written, log,
                   cancelled_at>>

Reaches ==
    /\ pc = "file"
    /\ f <= Len(CurDir.files)
    /\ ~FileLoopStop
    /\ ~ignore_file(CurFile.name)

LogEntry(what, key, resp) ==
    [file |-> CurPath, rel |-> CurRel, size |-> CurFile.size, what |-> what,
     key |-> key, resp |-> resp, before |-> response]

\* the except clause for the current file: text is str(e), key the value of
\* filepath when the exception was raised, out what was emitted before it
Except(text, key, resp, out, what) ==
    /\ results' = DictSet(results, key, ExceptValue(resp, text))
    /\ events' = events \o out \o <<ExceptEvent(resp, text, CurRel)>>
    /\ log' = Append(log, LogEntry(what, key, resp))
    /\ f' = f + 1
    /\ pc' = "file"
    /\ UNCHANGED <<config, gui, unreadable, stop, outcome, d, progress_bar_counter,
                   progress_bar_max, written, cancelled_at>>

\* line 278 raises: os.path.getsize fails
getsize_fails ==
    /\ Reaches
    /\ Except(<<"[WinError 2] The system cannot find the file specified">>,
              CurPath, response, <<>>, "getsize_error")
    /\ UNCHANGED <<response, requests>>

\* lines 283-290
file_skipped ==
    /\ Reaches
    /\ ExceedsLimit(CurFile.size)
    /\ LET key == Normalize(CurPath)
           msg == SkipMessage(CurFile.size)
       IN /\ events' = events \o <<Finished("Skipping:", CurRel), Finished("pre", msg)>>
          /\ results' = DictSet(results, key, Str(<<"Skipped: ">> \o msg))
          /\ log' = Append(log, LogEntry("skipped", key, NoResponse))
    /\ f' = f + 1
    /\ UNCHANGED <<config, gui, unreadable, stop, pc, outcome, d, progress_bar_counter,
                   progress_bar_max, response, requests, written, cancelled_at>>

\* line 312 raises: the file cannot be opened
open_fails ==
    /\ Reaches
    /\ ~ExceedsLimit(CurFile.size)
    /\ Except(<<"[Errno 13] Permission denied">>, CurPath, response, <<>>, "open_error")
    /\ UNCHANGED <<response, requests>>

\* a time in seconds: whole seconds and a part counted in 1/BytesPerMB of a
\* second, which holds 3 seconds per MB of a size in bytes exactly
Secs(n) == [whole |-> n, part |-> 0]

\* httpx.Timeout: one time for each phase of a request
Timeout(connect, read, write, pool) ==
    [connect |-> connect, read |-> read, write |-> write, pool |-> pool]

\* line 246: httpx.Timeout(300.0) gives every phase the same time
ClientTimeout ==
    Timeout(Secs(CLIENT_TIMEOUT), Secs(CLIENT_TIMEOUT), Secs(CLIENT_TIMEOUT),
            Secs(CLIENT_TIMEOUT))

\* line 294: max(60.0, min(600.0, 60.0 + (file_size_mb * 3)))
write_timeout(size) ==
    IF size \div BytesPerMB >= (600 - 60) \div 3 THEN Secs(600)
    ELSE [whole |-> 60 + (3 * size) \div BytesPerMB, part |-> (3 * size) % BytesPerMB]

\* lines 300-305: the local `timeout`
timeout(size) == Timeout(Secs(10), Secs(120), write_timeout(size), Secs(5))

\* lines 312-314: the upload is issued; the worker blocks in client.post.
\* The call names no timeout, so the request runs under the client's; the
\* local `timeout` is computed and used nowhere
post_begins ==
    /\ Reaches
    /\ ~ExceedsLimit(CurFile.size)
    /\ requests' = Append(requests, [file |-> CurPath, size |-> CurFile.size,
                                     computed |-> timeout(CurFile.size),
                                     timeout |-> ClientTimeout])
    /\ pc' = "post"
    /\ UNCHANGED <<config, gui, unreadable, stop, outcome, d, f, results, progress_bar_counter,
                   progress_bar_max, response, events, written, log, cancelled_at>>

\* client.post raises: timeout, connection refused
post_fails ==
    /\ pc = "post"
    /\ Except(<<"The write operation timed out">>, CurPath, response, <<>>,
              "transport_error")
    /\ UNCHANGED <<response, requests>>

\* client.post returns resp: lines 314-346, then the except clause or
\* lines 366-370
post_returns ==
    /\ pc = "post"
    /\ \E resp \in Responses(CurRel) :
         LET key == Normalize(CurPath)
             h == HandleResponse(resp, key, CurRel, only_missing_files, exclude_src)
         IN /\ response' = resp
            /\ IF h.raised
               THEN Except(h.text, key, resp, h.out, "response")
               ELSE /\ progress_bar_counter' = progress_bar_counter + 1
                    /\ events' = events \o h.out \o
                         <<Progress(update_progress(progress_bar_counter + 1,
                                                    progress_bar_max))>>
                    /\ results' = DictSet(results, key, h.value)
                    /\ log' = Append(log, LogEntry("response", key, resp))
                    /\ f' = f + 1
                    /\ pc' = "file"
                    /\ UNCHANGED <<config, gui, unreadable, stop, outcome, d, progress_bar_max,
                                   written, cancelled_at>>
    /\ UNCHANGED requests

\* json.dump(r, f, indent=4), line 777: the file holds the dict as it is
json_export(r) == r

\* the rows excel_export makes of one entry, lines 809-813.  `for val in vals`
\* goes through the items of a list, the keys of a dict and the characters of
\* a str; of a str the rows here are one per atom of its text, each atom
\* standing for the characters it is made of
ExcelRows(key, vals) ==
    IF vals = Str(<<"None">>) \/ vals = Str(<<"Error">>)
    THEN << [key |-> key, val |-> vals.text] >>
    ELSE IF vals.kind = "str"
    THEN [i \in 1..Len(vals.text) |-> [key |-> key, val |-> <<vals.text[i]>>]]
    ELSE [i \in 1..Len(vals.items) |-> [key |-> key, val |-> vals.items[i]]]

\* the rows of the data frame excel_export writes, lines 807-813
RECURSIVE excel_export(_)
excel_export(r) ==
    IF r = <<>> THEN <<>>
    ELSE ExcelRows(Head(r).key, Head(r).val) \o excel_export(Tail(r))

\* the except clause of save_results, lines 476-479
ExportFailure == <<Error("Error: Can't export file to requested location.", <<>>)>>

\* save_results whose except clause reports nothing
save_results_outcome_silent(json_fails, excel_fails) ==
    [files |-> << [format |-> "json", failed |-> json_fails, content |-> json_export(results)] >>,
     out |-> <<>>]

\* save_results, lines 457-479: what is written and emitted.  Either export
\* may fail; the first failure ends the try block.
save_results_outcome(json_fails, excel_fails) ==
    LET wants_json == output_type \in {"json", "json and excel"}
        wants_excel == output_type \in {"excel", "json and excel"}
        json_file(failed) == [format |-> "json", failed |-> failed,
                              content |-> json_export(results)]
        excel_file(failed) == [format |-> "excel", failed |-> failed,
                               content |-> excel_export(results)]
        json_done == IF wants_json
                     THEN [files |-> <<json_file(FALSE)>>,
                           out |-> <<Finished("Results JSON file saved to:", <<>>)>>]
                     ELSE [files |-> <<>>, out |-> <<>>]
    IN IF wants_json /\ json_fails
       THEN [files |-> <<json_file(TRUE)>>, out |-> ExportFailure]
       ELSE IF wants_excel /\ excel_fails
       THEN [files |-> Append(json_done.files, excel_file(TRUE)),
             out |-> json_done.out \o ExportFailure]
       ELSE IF wants_excel
       THEN [files |-> Append(json_done.files, excel_file(FALSE)),
             out |-> Append(json_done.out, Finished("Results Excel file saved to:", <<>>))]
       ELSE json_done

\* 'Search complete.' emitted before save_results is called
CompletionEventsReversed(saved_out) == <<Finished("Search complete.", <<>>)>> \o saved_out

\* lines 388-389: what save_results emits, then the final status
CompletionEvents(saved_out) == saved_out \o <<Finished("Search complete.", <<>>)>>

\* lines 377-389
process_files_end ==
    /\ pc = "save"
    /\ \E json_fails \in BOOLEAN, excel_fails \in BOOLEAN :
         LET saved == save_results_outcome(json_fails, excel_fails)
         IN /\ written' = written \o saved.files
            /\ events' = events \o CompletionEvents(saved.out)
    /\ pc' = "done"
    /\ outcome' = "completed"
    /\ UNCHANGED <<config, gui, unreadable, stop, d, f, results, progress_bar_counter,
                   progress_bar_max, response, requests, log, cancelled_at>>

Next ==
    \/ cancel
    \/ run
    \/ process_files_begin
    \/ walk_ends
    \/ walk_canceled
    \/ walk_dir
    \/ files_end
    \/ file_canceled
    \/ file_ignored
    \/ getsize_fails
    \/ file_skipped
    \/ open_fails
    \/ post_begins
    \/ post_fails
    \/ post_returns
    \/ process_files_end

Spec == Init /\ [][Next]_vars

----------------------------------------------------------------------------
(* Reading the history *)

Logged == 1..Len(log)

Recorded(i) == DictGet(results, log[i].key)

IsErrorEventFor(e, rel) ==
    /\ e.sig = "error"
    /\ \/ StartsWith(e.arg, rel \o <<":<br>">>)
       \/ StartsWith(e.arg, rel \o <<": ">>)

ErrorEventsFor(rel) ==
    Cardinality({ i \in 1..Len(events) : IsErrorEventFor(events[i], rel) })

IsProgress(e) == e.sig = "progress"

ProgressValues == SelectSeq(events, IsProgress)

SearchComplete == Finished("Search complete.", <<>>)

ProcessCanceled == Finished("Process canceled.", <<>>)

Emitted(e) == \E i \in 1..Len(events) : events[i] = e

IsStatus(e) == e.sig = "finished"

Statuses == SelectSeq(events, IsStatus)

\* a response that is an answer of the remote about the file: 404, or a
\* success status with a JSON array
IsAnswer(resp) ==
    \/ resp.status = 404
    \/ resp.status = 200 /\ resp.body.kind = "array"

----------------------------------------------------------------------------
(* C1: per-file failure isolation.  In every run, a file whose check failed
   (an HTTP error status, a response that is no answer, a transport error or
   a file-read error) is recorded as Failed with exactly one error event;
   every file the remote answered is recorded as Found or NotFound; and a run
   that is not canceled deals with every counted file and ends with
   'Search complete'. *)
C1_FailureIsolation ==
    /\ \A i \in Logged :
         IF log[i].what = "response" /\ IsAnswer(log[i].resp)
         THEN IsFound(Recorded(i)) \/ IsNotFound(Recorded(i))
         ELSE log[i].what # "skipped" =>
                /\ IsFailed(Recorded(i))
                /\ ErrorEventsFor(log[i].rel) = 1
    /\ (pc = "done" /\ outcome = "completed") =>
         /\ Len(log) = progress_bar_max
         /\ Len(events) > 0 /\ events[Len(events)] = SearchComplete

(* C2: when the worker finds the flag set at a loop boundary of
   process_files, its step emits 'Process canceled' and then progress 100,
   ends the run, and issues no upload, records nothing and writes no export;
   a canceled run has written no export file and has emitted neither
   'Search complete' nor an export status. *)
C2_AtBoundary ==
    /\ stop
    /\ \/ pc = "walk" /\ d <= Len(tree)
       \/ pc = "file" /\ f <= Len(tree[d].files)

C2_CancelStep ==
    C2_AtBoundary =>
        /\ events' = events \o <<ProcessCanceled, Progress(100)>>
        /\ pc' = "done"
        /\ outcome' = "canceled"
        /\ UNCHANGED <<requests, results, written>>

C2_CanceledRun ==
    outcome = "canceled" =>
        /\ pc = "done"
        /\ written = <<>>
        /\ ~Emitted(SearchComplete)
        /\ \A i \in 1..Len(events) :
             events[i].msg \notin {"Results JSON file saved to:",
                                   "Results Excel file saved to:"}
        /\ events[Len(events)] = Progress(100)
        /\ events[Len(events) - 1] = ProcessCanceled

C2_CancelObserved == [] C2_CanceledRun /\ [][C2_CancelStep]_vars

C2_Witness ==
    /\ outcome = "canceled"
    /\ Len(results) >= 1
    /\ Len(requests) >= 1

(* C3 as stated: a cancel() called in the processing loop when k outcomes
   are recorded (1 <= k < n) leaves at most k entries, and the run ends
   canceled, never with 'Search complete'. *)
C3_Original ==
    (/\ pc = "done"
     /\ cancelled_at.pc \in {"walk", "file", "post"}
     /\ cancelled_at.k >= 1
     /\ cancelled_at.k < progress_bar_max) =>
        /\ Len(results) <= cancelled_at.k
        /\ outcome = "canceled"
        /\ ~Emitted(SearchComplete)

(* C3 amended: a cancel() called after run() reset the flag, when k < n
   outcomes are recorded, leaves at most k + 1 entries (the upload in flight
   completes); the run ends with 'Process canceled' as its last status and
   without 'Search complete' when, at the call, a file or a directory was
   still to be begun after the one in progress; otherwise the run completes. *)
C3_Cancellation ==
    (/\ pc = "done"
     /\ cancelled_at.k >= 0
     /\ cancelled_at.k < progress_bar_max) =>
        /\ Len(results) <= cancelled_at.k + 1
        /\ IF cancelled_at.ahead
           THEN /\ outcome = "canceled"
                /\ ~Emitted(SearchComplete)
                /\ Statuses[Len(Statuses)] = ProcessCanceled
           ELSE outcome = "completed"

C3_Witness ==
    /\ pc = "done"
    /\ cancelled_at.pc = "post"
    /\ cancelled_at.k >= 1
    /\ cancelled_at.k < progress_bar_max
    /\ Len(results) = cancelled_at.k + 1
    /\ outcome = "canceled"

(* C4: in a run that processed at least one file, the progress values
   emitted are non-decreasing, and when the run has ended the last one
   is 100. *)
C4_ProgressMonotone ==
    Len(log) >= 1 =>
        /\ \A i \in 1..Len(ProgressValues) - 1 :
             ProgressValues[i].n <= ProgressValues[i + 1].n
        /\ pc = "done" => ProgressValues[Len(ProgressValues)].n = 100

(* C5: after a run that completes, the results dict has as many entries as
   find_file_count returned, one distinct key per counted file: the file's
   path, raw or normalised. *)
C5_CountMatches ==
    (pc = "done" /\ outcome = "completed") =>
        /\ Len(results) = progress_bar_max
        /\ Len(log) = progress_bar_max
        /\ Keys(results) = { log[i].key : i \in Logged }
        /\ \A i, j \in Logged : i # j => log[i].key # log[j].key
        /\ \A i \in Logged : log[i].key \in {log[i].file, Replace(log[i].file, FSL, BSL)}

C5_Witness ==
    /\ pc = "done"
    /\ outcome = "completed"
    /\ Len(results) = 3
    /\ \E i \in Logged : IsFailed(Recorded(i))
    /\ \E i \in Logged : IsSkipped(Recorded(i))

(* C6: a file whose request returned 400, 405 or 500 is recorded as Failed,
   whatever the body and the flags. *)
C6_ErrorStatusFailed ==
    \A i \in Logged :
        (log[i].what = "response" /\ log[i].resp.status \in {400, 405, 500}) =>
            IsFailed(Recorded(i))

(* C7: a file whose request returned a success status with a JSON array is
   recorded as Found, and every location stored for it is the rewritten form
   of a returned location. *)
C7_FoundRewritten ==
    \A i \in Logged :
        (/\ log[i].what = "response"
         /\ log[i].resp.status = 200
         /\ log[i].resp.body.kind = "array") =>
            /\ IsFound(Recorded(i))
            /\ \A j \in 1..Len(Recorded(i).items) :
                 \E l \in 1..Len(log[i].resp.body.items) :
                    Recorded(i).items[j] =
                        SHARE_ROOT \o Replace(log[i].resp.body.items[l], FSL, BSL)

\* what the loop records for a response under the given flags
RecordedFor(resp, filepath, rel, only_missing, excl) ==
    LET h == HandleResponse(resp, filepath, rel, only_missing, excl)
    IN IF h.raised THEN ExceptValue(resp, h.text) ELSE h.value

(* C8: the value recorded for a file the remote answered (404, or a success
   status with a JSON array) is the value the run would record for the same
   response with only_missing_files the other way round. *)
C8_OnlyMissingDisplayOnly ==
    \A i \in Logged :
        (log[i].what = "response" /\ IsAnswer(log[i].resp)) =>
            Recorded(i) = RecordedFor(log[i].resp, log[i].key, log[i].rel,
                                      ~only_missing_files, exclude_src)

RECURSIVE RewrittenWithout(_, _)
RewrittenWithout(locs, src) ==
    IF locs = <<>> THEN <<>>
    ELSE LET rw == SHARE_ROOT \o Replace(Head(locs), FSL, BSL)
         IN (IF rw = src THEN <<>> ELSE <<rw>>) \o RewrittenWithout(Tail(locs), src)

(* C9: with exclude_src set, the outcome recorded for a returned location
   list is Found, and the list recorded is the rewritten list without the
   entries equal to the normalised source path, the others kept in order. *)
C9_ExcludeSource ==
    \A i \in Logged :
        (/\ exclude_src
         /\ log[i].what = "response"
         /\ log[i].resp.status = 200
         /\ log[i].resp.body.kind = "array") =>
            /\ IsFound(Recorded(i))
            /\ Recorded(i) = List(RewrittenWithout(log[i].resp.body.items, log[i].key))

(* C10: a file measured above MAX_FILE_SIZE_MB is recorded as Skipped with a
   reason naming its size and the limit, and no upload is ever issued for a
   file above the limit; a file of at most the limit is never recorded as
   Skipped. *)
C10_SkipPolicy ==
    /\ \A i \in Logged :
         log[i].what # "getsize_error" =>
            IF log[i].size > MAX_FILE_SIZE_MB * 1024 * 1024
            THEN /\ Recorded(i) = Str(<<"Skipped: ", "File too large (">>
                                      \o Format1f(log[i].size)
                                      \o <<"MB exceeds ", ToString(MAX_FILE_SIZE_MB), "MB limit)">>)
                 /\ \A r \in 1..Len(requests) : requests[r].file # log[i].file
            ELSE ~IsSkipped(Recorded(i))
    /\ \A r \in 1..Len(requests) : requests[r].size <= MAX_FILE_SIZE_MB * 1024 * 1024

C10_Witness ==
    /\ \E i \in Logged : IsSkipped(Recorded(i)) /\ log[i].size = LimitBytes + 1
    /\ \E i \in Logged : log[i].size = LimitBytes /\ IsFound(Recorded(i))

----------------------------------------------------------------------------
(* The export files *)

ExcelFiles == { i \in 1..Len(written) : written[i].format = "excel" /\ ~written[i].failed }

RowsOf(rows, key) == SelectSeq(rows, LAMBDA row : row.key = key)

(* C11: in the table excel_export writes, an entry whose value is a list of
   N locations has N rows, one per location in order, and an entry of any
   other outcome ('None', 'Skipped: ...', 'Error: ...') has exactly one row,
   holding its key and its description. *)
C11_TabularExport ==
    \A w \in ExcelFiles : \A i \in 1..Len(results) :
        LET key == results[i].key
            vals == results[i].val
            rows == RowsOf(written[w].content, key)
        IN IF IsFound(vals)
           THEN rows = [j \in 1..Len(vals.items) |-> [key |-> key, val |-> vals.items[j]]]
           ELSE rows = << [key |-> key, val |-> vals.text] >>

IsExportError(e) ==
    e.sig = "error" /\ e.msg = "Error: Can't export file to requested location."

FailedExports == { i \in 1..Len(written) : written[i].failed }

\* the export was handed the results dict as it is now
HandedResults(w) ==
    IF w.format = "json" THEN w.content = results
    ELSE w.content = excel_export(results)

(* C12: when an export write fails inside save_results, in any output mode,
   the failure is reported as exactly one error event, the run still ends
   completed with 'Search complete.' as its last event, and the results dict
   is what was handed to the export: no entry was changed by the failure. *)
C12_ExportFailure ==
    (pc = "done" /\ FailedExports # {}) =>
        /\ Cardinality({ i \in 1..Len(events) : IsExportError(events[i]) }) = 1
        /\ Cardinality(FailedExports) = 1
        /\ outcome = "completed"
        /\ events[Len(events)] = SearchComplete
        /\ \A i \in 1..Len(written) : HandedResults(written[i])

C12_Witness ==
    /\ pc = "done"
    /\ output_type = "json and excel"
    /\ Len(written) = 2
    /\ ~written[1].failed
    /\ written[2].failed
    /\ \E i \in Logged : IsFound(Recorded(i))

(* C13: when the pre-count is 0 the run emits 'No files found.' and ends
   there: no upload is issued, no export is written, nothing is recorded,
   and neither 'Search complete.' nor 'Process canceled.' is emitted,
   whether or not cancel() was called. *)
C13_EmptyBatch ==
    (pc \notin {"start", "count"} /\ progress_bar_max = 0) =>
        /\ pc = "done"
        /\ outcome = "nofiles"
        /\ events[Len(events)] = Finished("No files found.", <<>>)
        /\ requests = <<>>
        /\ written = <<>>
        /\ results = <<>>
        /\ ~Emitted(SearchComplete)
        /\ ~Emitted(ProcessCanceled)
        /\ \A i \in 1..Len(events) : ~IsExportError(events[i])

C13_Witness ==
    /\ outcome = "nofiles"
    /\ progress_bar_max = 0
    /\ stop
    /\ events[Len(events)] = Finished("No files found.", <<>>)

----------------------------------------------------------------------------
(* Which files a run deals with *)

\* the place of the last separator of p at or before i, 0 when there is none
RECURSIVE LastSeparator(_, _)
LastSeparator(p, i) ==
    IF i = 0 \/ p[i] \in {BSL, FSL} THEN i ELSE LastSeparator(p, i - 1)

\* os.path.basename: what follows the last separator
BaseName(p) == SubSeq(p, LastSeparator(p, Len(p)) + 1, Len(p))

IsIgnoredName(n) ==
    \/ n = <<"Thumbs.db">>
    \/ n = <<".DS_Store">>
    \/ (Len(n) >= 2 /\ n[1] = "~" /\ n[2] = "$")

\* the files of the directories a walk of the tree visits
WalkedFiles ==
    UNION { { <<dd, ff>> : ff \in 1..Len(tree[dd].files) } :
              dd \in (IF recursive THEN 1..Len(tree) ELSE {1}) }

IgnoredFiles == { df \in WalkedFiles : IsIgnoredName(tree[df[1]].files[df[2]].name) }

(* C14: no key of the results dict is the path of a file named Thumbs.db or
   .DS_Store or of a file whose name begins with ~$; no upload is issued for
   such a file, the loop deals with none, and the pre-count is the number of
   the other files of the directories walked. *)
C14_IgnorePolicy ==
    /\ \A k \in Keys(results) : ~IsIgnoredName(BaseName(k))
    /\ \A r \in 1..Len(requests) : ~IsIgnoredName(BaseName(requests[r].file))
    /\ \A i \in Logged : ~IsIgnoredName(BaseName(log[i].file))
    /\ pc \notin {"start", "count"} =>
            progress_bar_max = Cardinality(WalkedFiles \ IgnoredFiles)

C14_Witness ==
    /\ pc = "done"
    /\ outcome = "completed"
    /\ \E df \in IgnoredFiles : StartsWith(tree[df[1]].files[df[2]].name, <<"~", "$">>)
    /\ Len(results) = 3
    /\ Len(requests) = 2

\* p is the path of a file directly in the root directory
IsChildOfRoot(p) ==
    /\ Len(p) > Len(path) + 1
    /\ Replace(SubSeq(p, 1, Len(path)), FSL, BSL) = Replace(path, FSL, BSL)
    /\ p[Len(path) + 1] \in {BSL, FSL}
    /\ \A i \in (Len(path) + 2)..Len(p) : p[i] \notin {BSL, FSL}

(* C15: in a non-recursive run every key of the results dict is the path of
   a file directly in the root directory, and no file of a subdirectory is
   uploaded or dealt with by the loop. *)
C15_NonRecursive ==
    ~recursive =>
        /\ \A k \in Keys(results) : IsChildOfRoot(k)
        /\ \A r \in 1..Len(requests) : IsChildOfRoot(requests[r].file)
        /\ \A i \in Logged : IsChildOfRoot(log[i].file)

C15_Witness ==
    /\ ~recursive
    /\ pc = "done"
    /\ outcome = "completed"
    /\ Len(tree) = 2
    /\ \E ff \in 1..Len(tree[2].files) : ~IsIgnoredName(tree[2].files[ff].name)
    /\ Len(results) = 1
    /\ Len(requests) = 1

----------------------------------------------------------------------------
(* The uploads *)

\* 60 s plus 3 s per MB, at least 60 s and at most 600 s
WriteBudget(size) ==
    IF 3 * (size \div 1024) >= 540 * 1024 THEN [whole |-> 600, part |-> 0]
    ELSE [whole |-> 60 + (3 * size) \div (1024 * 1024),
          part |-> (3 * size) % (1024 * 1024)]

(* C17: every upload is issued under per-phase timeouts: write 60 s plus 3 s
   per MB of the file clamped to [60 s, 600 s], read 120 s, connect 10 s and
   pool 5 s. *)
C17_PhaseTimeouts ==
    \A r \in 1..Len(requests) :
        requests[r].timeout =
            [connect |-> [whole |-> 10, part |-> 0],
             read |-> [whole |-> 120, part |-> 0],
             write |-> WriteBudget(requests[r].size),
             pool |-> [whole |-> 5, part |-> 0]]

----------------------------------------------------------------------------
(* The keys *)

(* C18: every key of the results dict is the normalised path of its file,
   every forward slash replaced by a backslash, whatever the outcome
   recorded: Found, NotFound, Skipped, or Failed before or after a response
   was received. *)
C18_KeysNormalised ==
    /\ \A i \in Logged : log[i].key = Replace(log[i].file, FSL, BSL)
    /\ \A k \in Keys(results) : \A j \in 1..Len(k) : k[j] # FSL

----------------------------------------------------------------------------
(* The cancellation flag *)

\* what only the worker thread changes
worker_vars == <<pc, outcome, d, f, results, progress_bar_counter, progress_bar_max,
                 response, events, requests, written, log>>

(* C19: the cancellation flag is written only by cancel(): every step that
   changes it sets it, and is no step of the worker thread. *)
C19_SingleWriter ==
    [][stop' # stop => (stop' /\ UNCHANGED worker_vars)]_vars

----------------------------------------------------------------------------
(* The window and the worker: GuiHandler, and run()'s except clause *)

\* run, lines 160-163
FatalEvents(text) == <<Error("Error occurred:", text)>>

\* str(e) of an exception that leaves process_files
FatalText == <<"[WinError 59] An unexpected network error occurred">>

\* run's except clause: the thread ends
fatal(out) ==
    /\ events' = events \o out \o FatalEvents(FatalText)
    /\ pc' = "done"
    /\ outcome' = "fatal"

\* lines 232-236 and 409-410: the counting walk raises
count_raises ==
    /\ pc = "count"
    /\ fatal(<<Progress(0), Finished("Calculating file count...", <<>>)>>)
    /\ results' = <<>>
    /\ progress_bar_counter' = 0
    /\ UNCHANGED <<config, gui, unreadable, stop, d, f, progress_bar_max, response, requests,
                   written, log, cancelled_at>>

\* line 247: os.walk raises when asked for the next directory, before the
\* flag is read
walk_raises ==
    /\ pc = "walk"
    /\ fatal(<<>>)
    /\ UNCHANGED <<config, gui, unreadable, stop, d, f, results, progress_bar_counter,
                   progress_bar_max, response, requests, written, log, cancelled_at>>

\* line 247: os.walk cannot list the next directory.  It is called without
\* onerror, so the OSError of scandir is ignored and the directory is passed
\* over with all below it: the walk yields nothing at all when the
\* directory is the root
walk_unreadable ==
    /\ pc = "walk"
    /\ d <= Len(tree)
    /\ unreadable' = unreadable \cup {d}
    /\ d' = IF d = 1 THEN Len(tree) + 1 ELSE d + 1
    /\ UNCHANGED <<config, gui, stop, pc, outcome, f, results, progress_bar_counter,
                   progress_bar_max, response, events, requests, written, log,
                   cancelled_at>>

\* lines 268-270: building the paths of a file raises, outside the try block
file_raises ==
    /\ Reaches
    /\ fatal(<<>>)
    /\ UNCHANGED <<config, gui, unreadable, stop, d, f, results, progress_bar_counter,
                   progress_bar_max, response, requests, written, log, cancelled_at>>

\* lines 701-706: a HeavyLifter is made, assigned to self.hl and started
new_worker ==
    /\ pc' = "start"
    /\ stop' = FALSE
    /\ cancel_button' = TRUE
    /\ cancelled_at' = NoCancel
    /\ UNCHANGED <<config, handled, unreadable, outcome, d, f, results,
                   progress_bar_counter, progress_bar_max, response,
                   events, requests, written, log>>

\* GuiHandler.archived_or_not_call, lines 664-706: Submit.  Nothing in it
\* looks at a worker that is running: self.hl is assigned the new worker and
\* the last reference to the earlier one is dropped.  Whether the earlier
\* thread then runs on or the QThread is destroyed while running, which ends
\* the application, is not decided by the program.  A Submit during a run is
\* taken while the earlier worker has emitted nothing, and one after a run
\* has ended is left out
archived_or_not_call ==
    /\ \E isdir \in BOOLEAN :
         IF ~isdir
         THEN pc # "aborted" /\ UNCHANGED vars
         ELSE \/ /\ pc = "idle"
                 /\ new_worker
                 /\ orphans' = orphans
              \/ /\ pc \in {"start", "count"}
                 /\ orphans < MaxOrphans
                 /\ \E destroyed \in BOOLEAN :
                      IF destroyed
                      THEN /\ pc' = "aborted"
                           /\ UNCHANGED <<config, gui, unreadable, stop, outcome, d, f,
                                          results, progress_bar_counter,
                                          progress_bar_max, response, events,
                                          requests, written, log, cancelled_at>>
                      ELSE /\ new_worker
                           /\ orphans' = orphans + 1

\* a worker that was replaced comes to its end
orphan_ends ==
    /\ pc # "aborted"
    /\ orphans > 0
    /\ orphans' = orphans - 1
    /\ UNCHANGED <<config, cancel_button, handled, unreadable, stop, worker_vars,
                   cancelled_at>>

\* QThread.isRunning: true from start() until run() has returned, which is
\* some time after the last signal was emitted
isRunning(returned) ==
    pc \notin {"idle", "done", "aborted"} \/ (pc = "done" /\ ~returned)

\* GuiHandler.cancel_heavylifter, lines 708-721: a click on the enabled button
cancel_heavylifter ==
    /\ pc # "aborted"
    /\ cancel_button
    /\ \E returned \in BOOLEAN :
         IF isRunning(returned)
         THEN /\ stop' = TRUE
              /\ cancelled_at' = IF pc \in {"start", "done"} \/ stop THEN cancelled_at
                                 ELSE [k |-> Len(results), ahead |-> CheckAheadAt,
                                       pc |-> pc]
              /\ cancel_button' = FALSE
              /\ UNCHANGED <<config, handled, orphans, unreadable, worker_vars>>
         ELSE UNCHANGED vars

\* the messages of line 748
DisablingMessages == {SearchComplete, ProcessCanceled}

\* GuiHandler.handle_finished, lines 723-749: the slot of the next event, a
\* status
handle_finished ==
    /\ pc # "aborted"
    /\ handled < Len(events)
    /\ events[handled + 1].sig = "finished"
    /\ handled' = handled + 1
    /\ cancel_button' = IF events[handled + 1] \in DisablingMessages THEN FALSE
                        ELSE cancel_button
    /\ UNCHANGED <<config, orphans, unreadable, stop, worker_vars, cancelled_at>>

\* lines 702 and 704: the slots of progress and error, progress_bar.setValue
\* and output_text_edit.append
handle_other ==
    /\ pc # "aborted"
    /\ handled < Len(events)
    /\ events[handled + 1].sig # "finished"
    /\ handled' = handled + 1
    /\ UNCHANGED <<config, orphans, unreadable, stop, worker_vars, cancelled_at, cancel_button>>

\* the window as GuiHandler.__init__ leaves it, lines 507-521 and 608-610,
\* with the form filled in
InitSystem ==
    /\ path = <<"N:", FSL, "PPDO", FSL, "Records", FSL, "r">>
    /\ exclude_src = FALSE
    /\ recursive \in BOOLEAN
    /\ only_missing_files = FALSE
    /\ output_type = "json"
    /\ tree \in Trees
    /\ stop = FALSE
    /\ pc = "idle"
    /\ outcome = "none"
    /\ d = 0
    /\ f = 0
    /\ results = <<>>
    /\ progress_bar_counter = 0
    /\ progress_bar_max = 0
    /\ response = NoResponse
    /\ events = <<>>
    /\ requests = <<>>
    /\ written = <<>>
    /\ log = <<>>
    /\ cancelled_at = NoCancel
    /\ cancel_button = FALSE
    /\ handled = 0
    /\ unreadable = {}
    /\ orphans = 0

NextSystem ==
    \/ archived_or_not_call
    \/ orphan_ends
    \/ cancel_heavylifter
    \/ handle_finished
    \/ handle_other
    \/ run
    \/ process_files_begin
    \/ walk_ends
    \/ walk_canceled
    \/ walk_dir
    \/ files_end
    \/ file_canceled
    \/ file_ignored
    \/ getsize_fails
    \/ file_skipped
    \/ open_fails
    \/ post_begins
    \/ post_fails
    \/ post_returns
    \/ process_files_end
    \/ count_raises
    \/ walk_raises
    \/ file_raises
    \/ walk_unreadable

SpecSystem == InitSystem /\ [][NextSystem]_vars

IsFatalError(e) == e.sig = "error" /\ e.msg = "Error occurred:"

(* C16: when the directory walk faults outside the per-file try block, by
   an exception that leaves process_files or by a directory that cannot be
   read, the run emits exactly one error event for it, as its last event,
   and ends: no export is written or reported and 'Search complete.' is never
   emitted. *)
C16_FatalError ==
    (pc = "done" /\ (outcome = "fatal" \/ unreadable # {})) =>
        /\ outcome = "fatal"
        /\ Cardinality({ i \in 1..Len(events) : IsFatalError(events[i]) }) = 1
        /\ IsFatalError(events[Len(events)])
        /\ written = <<>>
        /\ ~Emitted(SearchComplete)
        /\ \A i \in 1..Len(events) :
              /\ ~IsExportError(events[i])
              /\ events[i].msg \notin {"Results JSON file saved to:",
                                        "Results Excel file saved to:"}

(* C20: once the window has handled every event of a run that ended with one
   of the three terminal statuses ('No files found.', 'Process canceled.',
   'Search complete.'), the Cancel button is disabled. *)
C20_CancelAffordance ==
    (/\ pc = "done"
     /\ outcome \in {"nofiles", "canceled", "completed"}
     /\ handled = Len(events)) => ~cancel_button

----------------------------------------------------------------------------
(* The progress counter *)

(* C21: the processed-file counter advances by one for every file the loop
   deals with, whatever the outcome recorded for it (Found, NotFound, Skipped
   or Failed), so that after a run that completes it equals the pre-count
   total. *)
C21_CounterAdvances ==
    /\ progress_bar_counter = Len(log)
    /\ (pc = "done" /\ outcome = "completed") => progress_bar_counter = progress_bar_max

\* lines 366-368 alone, for a batch of any size up to MaxTotal whose files
\* are all answered: the pre-count total is drawn, and every step is one file
\* processed
InitProgress ==
    /\ path = <<"N:", BSL, "PPDO", BSL, "Records", BSL, "r">>
    /\ exclude_src = FALSE
    /\ recursive = FALSE
    /\ only_missing_files = FALSE
    /\ output_type = "none"
    /\ tree = <<>>
    /\ stop = FALSE
    /\ pc = "file"
    /\ outcome = "none"
    /\ d = 1
    /\ f = 1
    /\ results = <<>>
    /\ progress_bar_counter = 0
    /\ progress_bar_max \in 1..MaxTotal
    /\ response = NoResponse
    /\ events = <<>>
    /\ requests = <<>>
    /\ written = <<>>
    /\ log = <<>>
    /\ cancelled_at = NoCancel
    /\ cancel_button = TRUE
    /\ handled = 0
    /\ unreadable = {}
    /\ orphans = 0

\* lines 366-368
file_processed ==
    /\ progress_bar_counter < progress_bar_max
    /\ progress_bar_counter' = progress_bar_counter + 1
    /\ events' = Append(events, Progress(update_progress(progress_bar_counter + 1,
                                                         progress_bar_max)))
    /\ f' = f + 1
    /\ UNCHANGED <<config, gui, unreadable, stop, pc, outcome, d, results,
                   progress_bar_max, response, requests, written, log, cancelled_at>>

NextProgress == file_processed

SpecProgress == InitProgress /\ [][NextProgress]_vars

(* C22: the k-th progress value update_progress emits after a file is
   max(1, floor(k * 100 / total)) with 1 <= k <= total; it lies in 1..100 and
   is never 0, and the counter never exceeds the pre-count total. *)
C22_ProgressArithmetic ==
    /\ progress_bar_counter <= progress_bar_max
    /\ Len(events) = progress_bar_counter
    /\ \A k \in 1..Len(events) :
         LET floor == CHOOSE q \in 0..100 :
                         q * progress_bar_max <= k * 100 /\ k * 100 < (q + 1) * progress_bar_max
         IN /\ events[k].sig = "progress"
            /\ events[k].n = (IF floor < 1 THEN 1 ELSE floor)
            /\ events[k].n \in 1..100

C22_Witness ==
    /\ progress_bar_max > 100
    /\ progress_bar_counter = progress_bar_max
    /\ events[1].n = 1
    /\ events[Len(events)].n = 100

----------------------------------------------------------------------------
(* The two walks *)

\* the paths of the files find_file_count counts, lines 410-419
CountedFiles ==
    LET dirs == WalkedCount(tree, recursive)
    IN UNION { { PathJoin(RootOf(path, dirs[dd]), dirs[dd].files[ff].name) :
                   ff \in { x \in 1..Len(dirs[dd].files) :
                              ~ignore_file(dirs[dd].files[x].name) } } :
               dd \in 1..Len(dirs) }

\* the paths of the files the processing walk has reached
ReachedFiles == { log[i].file : i \in Logged }

(* C23: the counting walk and the processing walk select the same files: in
   a run that completes, the files process_files reached are the files
   find_file_count counted, recursive or not, and every file reached at any
   time is a counted one. *)
C23_SameFiles ==
    /\ ReachedFiles \subseteq CountedFiles
    /\ (pc = "done" /\ outcome = "completed") =>
           /\ ReachedFiles = CountedFiles
           /\ progress_bar_max = Cardinality(CountedFiles)

C23_Witness ==
    /\ pc = "done"
    /\ outcome = "completed"
    /\ recursive
    /\ Len(tree) = 2
    /\ IgnoredFiles # {}
    /\ Cardinality(ReachedFiles) = 2
    /\ \E i \in Logged : Len(log[i].rel) > 1

----------------------------------------------------------------------------
(* The reason of a failure *)

\* the files that failed before any response was received for them
FailedUnanswered ==
    { i \in Logged : log[i].what \in {"getsize_error", "open_error", "transport_error"} }

\* str(e) of the exception the failure of file i raised
OwnErrorText(i) ==
    CASE log[i].what = "getsize_error" ->
            <<"[WinError 2] The system cannot find the file specified">>
      [] log[i].what = "open_error" -> <<"[Errno 13] Permission denied">>
      [] log[i].what = "transport_error" -> <<"The write operation timed out">>

(* C24: for a file that failed with a transport or local I/O error before
   any response was received for it, the reason recorded and the error event
   emitted carry the text of that file's own error, wherever the file stands
   in the batch and whatever the responses of earlier files were. *)
C24_OwnFailureReason ==
    \A i \in FailedUnanswered :
        /\ Recorded(i) = Str(<<"Error: ">> \o OwnErrorText(i))
        /\ Emitted(Error("Error processing file", log[i].rel \o <<": ">> \o OwnErrorText(i)))

----------------------------------------------------------------------------
(* The end of a run *)

IsExportEvent(e) ==
    \/ IsExportError(e)
    \/ e.sig = "finished" /\ e.msg \in {"Results JSON file saved to:",
                                         "Results Excel file saved to:"}

ExportEvents == { i \in 1..Len(events) : IsExportEvent(events[i]) }

(* C25: in a run whose walk ends normally the results dict is handed to
   save_results once, after the last file's outcome was recorded: each format
   is exported at most once and from the dict as it stands at the end; the
   exporter's events follow every event of the files, and 'Search complete.'
   is emitted once, as the last event of the run. *)
C25_CompletionOrder ==
    (pc = "done" /\ outcome = "completed") =>
        /\ events[Len(events)] = SearchComplete
        /\ Cardinality({ i \in 1..Len(events) : events[i] = SearchComplete }) = 1
        /\ \A i \in ExportEvents : \A j \in (i + 1)..(Len(events) - 1) : j \in ExportEvents
        /\ \A i, j \in ExportEvents : events[i].msg = events[j].msg => i = j
        /\ \A v, w \in 1..Len(written) : written[v].format = written[w].format => v = w
        /\ \A w \in 1..Len(written) : HandedResults(written[w])
        /\ Len(results) = Len(log)

C25_Witness ==
    /\ pc = "done"
    /\ outcome = "completed"
    /\ Len(written) = 2
    /\ \A w \in 1..Len(written) : ~written[w].failed
    /\ Cardinality(ExportEvents) = 2
    /\ Len(results) = 3

----------------------------------------------------------------------------
(* Cancellation from the window *)

\* Cancel was clicked while the worker was running, and the worker has not
\* ended yet: the button, enabled by Submit, is disabled before any terminal
\* status was handled only by cancel_heavylifter calling cancel()
CancelRequested == pc \notin {"idle", "done", "aborted"} /\ ~cancel_button

(* C26: once cancellation was requested of a running worker, from the moment
   start() was called, the worker starts no further upload. *)
C26_CancelHonored ==
    [][CancelRequested => requests' = requests]_vars

----------------------------------------------------------------------------
(* Submit during a run *)

(* C27: whatever is clicked, no worker is running but the one self.hl refers
   to, which is the one Cancel reaches: a Submit during a run never leaves
   the earlier worker running beside the new one. *)
C27_OneRunAtATime == orphans = 0

----------------------------------------------------------------------------
(* The rows of a key *)

(* C28: every key of the results dict has at least one row in the table
   excel_export writes, also when its value is an empty list of locations. *)
C28_EveryKeyHasRow ==
    \A w \in ExcelFiles : \A k \in Keys(results) :
        \E r \in 1..Len(written[w].content) : written[w].content[r].key = k

----------------------------------------------------------------------------
(* The two exports *)

Attempted(format) == \E w \in 1..Len(written) : written[w].format = format

(* C29: in output mode 'json and excel' a completed run has attempted each
   format once, whether or not the other failed, and a JSON file that was
   written is reported whatever becomes of the Excel file. *)
C29_IndependentExports ==
    (pc = "done" /\ outcome = "completed" /\ output_type = "json and excel") =>
        /\ Attempted("json")
        /\ Attempted("excel")
        /\ Len(written) = 2
        /\ (\E w \in 1..Len(written) : written[w].format = "json" /\ ~written[w].failed)
              => Emitted(Finished("Results JSON file saved to:", <<>>))

----------------------------------------------------------------------------
(* Cancellation during the count *)

(* C30: a flag set while the worker is in the counting walk stays set and is
   honored at the first boundary, the directory loop's test before the first
   directory: the file loop is never entered, no upload is issued and nothing
   is recorded, and when files were counted the run ends with
   'Process canceled.' and without 'Search complete.'. *)
C30_CancelDuringCount ==
    cancelled_at.pc = "count" =>
        /\ stop
        /\ pc \in {"count", "walk", "done"}
        /\ requests = <<>>
        /\ results = <<>>
        /\ log = <<>>
        /\ written = <<>>
        /\ (pc = "done" /\ CountedFiles # {}) =>
               /\ outcome = "canceled"
               /\ Emitted(ProcessCanceled)
               /\ ~Emitted(SearchComplete)

C30_Witness ==
    /\ cancelled_at.pc = "count"
    /\ pc = "done"
    /\ outcome = "canceled"
    /\ Cardinality(CountedFiles) = 3
    /\ events[Len(events)] = Progress(100)

====
